---- MODULE Spec2Model ----
(***************************************************************************)
(* Model of src/tty2img.py: class tty2img, which renders a pyte terminal   *)
(* screen as a PIL image.                                                   *)
(*                                                                         *)
(* State: the arguments the object was constructed with, the object's      *)
(* fields (self), the lru_cache of memofont, the screen the caller holds,  *)
(* and the outcome of the last render call.                                 *)
(*                                                                         *)
(* PIL, freetype and pyte are libraries: a font is the pair (path, size),  *)
(* its metrics are functions of the size, an image is its size, its fill   *)
(* colour and the list of draw calls made on it, a colour is the token the *)
(* code compares (never the RGB value).                                     *)
(***************************************************************************)
EXTENDS Integers, Sequences, FiniteSets, TLC

VARIABLES pc, args, self, memo, screen, result, previous, cells

vars == <<pc, args, self, memo, screen, result, previous, cells>>

---------------------------------------------------------------------------
(* Bounds of the model *)

\* antialiasing is drawn from 0..MaxAntialiasing (0 is the default, line 42)
MaxAntialiasing == 2
\* lineSpace is drawn from 0..MaxLineSpace
MaxLineSpace == 1
\* a rendered screen populates columns 0..MaxCol, and its cursor is in one
\* of them
MaxCol == 2

---------------------------------------------------------------------------
(* Program constants *)

\* for i in range(8, 64)
ScanFirst == 8
ScanStop == 64
\* if iw > 1920 or ih > 1080
ScanWidthLimit == 1920
ScanHeightLimit == 1080
\* marginSize = 10, fontSize = 16 (defaults of __init__)
DefaultMarginSize == 10
DefaultFontSize == 16

---------------------------------------------------------------------------
(* Colours *)

\* A colour token is a sequence of lexemes; a leading "#" is a lexeme of its
\* own, so that color[0] and "#" + color are Head and concatenation.
Named(n) == <<n>>
Hex(h) == <<h>>
HashHex(h) == <<"#", h>>

\* ImageColor.colormap, the part of it the model's colours need
colormap == {Named("black"), Named("white"), Named("red")}

\* _convertColor
convertColor(color) ==
    IF color[1] # "#" /\ color \notin colormap THEN <<"#">> \o color ELSE color

---------------------------------------------------------------------------
(* Fonts *)

fontName == "DejaVuSansMono.ttf"
boldFontName == "DejaVuSansMono-Bold.ttf"
italicsFontName == "DejaVuSansMono-Oblique.ttf"
boldItalicsFontName == "DejaVuSansMono-BoldOblique.ttf"

\* ImageFont.truetype(name, size)
truetype(name, size) == [path |-> name, size |-> size]

\* freetype.Face(path)
Face(path) == [path |-> path]

\* f.getsize('X')[0]: the advance of 'X', 1233/2048 em in DejaVu Sans Mono,
\* rounded to a pixel
getsizeX(f) == (f.size * 1233 + 1024) \div 2048

\* sum(f.getmetrics()): ascent + descent, each rounded up to a pixel
\* (1901/2048 and 483/2048 em in DejaVu Sans Mono)
getmetricsSum(f) ==
    ((f.size * 1901 + 2047) \div 2048) + ((f.size * 483 + 2047) \div 2048)

\* the characters the four font files hold a glyph for
GlyphChars == {" ", "A"}

\* font[1].get_char_index(char): nonzero iff the face holds the glyph
get_char_index(face, char) == IF char \in GlyphChars THEN 1 ELSE 0

---------------------------------------------------------------------------
(* Construction: tty2img.__init__ *)

\* the stop condition of the size scan
StopConditionBoth(iw, ih) == iw > ScanWidthLimit /\ ih > ScanHeightLimit
StopCondition(iw, ih) == iw > ScanWidthLimit \/ ih > ScanHeightLimit

\* the projected image size at point size i: iw, ih of the scan
ProjectedWidth(a, i) == getsizeX(truetype(fontName, i)) * a.columns + 2 * a.marginSize
ProjectedHeight(a, i) ==
    (getmetricsSum(truetype(fontName, i)) + a.lineSpace) * a.lines + 2 * a.marginSize

\* the loop "for i in range(8, 64)": the first i that meets the stop
\* condition is assigned to fontSize; with no such i, fontSize keeps the
\* value of the argument
RECURSIVE ScanFontSize(_, _)
ScanFontSize(a, i) ==
    IF i >= ScanStop THEN a.fontSize
    ELSE IF StopCondition(ProjectedWidth(a, i), ProjectedHeight(a, i)) THEN i
    ELSE ScanFontSize(a, i + 1)

\* Image.new('RGBA', size, color)
ImageNew(mode, size, color) ==
    [mode |-> mode, size |-> size, color |-> color, ops |-> <<>>, filter |-> "NONE"]

\* self.imgWidth, self.imgHeight
imgWidth == 1920
imgHeight == 1080

\* the fields of the object when __init__ returns
NewSelf(a) ==
    LET fontSize == ScanFontSize(a, ScanFirst)
        normal == truetype(fontName, fontSize)
        scaled == a.antialiasing > 1
    IN  [ antialiasing    |-> a.antialiasing,
          lineSpace       |-> IF scaled THEN a.lineSpace * a.antialiasing ELSE a.lineSpace,
          marginSize      |-> IF scaled THEN a.marginSize * a.antialiasing ELSE a.marginSize,
          fontSize        |-> IF scaled THEN a.fontSize * a.antialiasing ELSE a.fontSize,
          normalFont      |-> <<normal, Face(fontName)>>,
          boldFont        |-> <<truetype(boldFontName, fontSize), Face(boldFontName)>>,
          italicsFont     |-> <<truetype(italicsFontName, fontSize), Face(italicsFontName)>>,
          boldItalicsFont |-> <<truetype(boldItalicsFontName, fontSize), Face(boldItalicsFontName)>>,
          charWidth       |-> getsizeX(normal),
          charHeight      |-> getmetricsSum(normal) + a.lineSpace,
          imgWidth        |-> imgWidth,
          imgHeight       |-> imgHeight,
          bgDefaultColor  |-> a.bgDefaultColor,
          fgDefaultColor  |-> a.fgDefaultColor,
          base_image      |-> ImageNew("RGBA", <<imgWidth, imgHeight>>, a.bgDefaultColor),
          showCursor      |-> a.showCursor ]

\* the (columns, lines) of the screen handed to __init__
Grids == { <<80, 24>>, <<132, 10>>, <<40, 10>> }

\* the arguments of __init__
Args ==
    { [ fgDefaultColor |-> Named("black"), bgDefaultColor |-> Named("white"),
        fontSize |-> fs, lineSpace |-> ls, marginSize |-> DefaultMarginSize,
        antialiasing |-> aa, showCursor |-> sc, logFunction |-> lf,
        columns |-> g[1], lines |-> g[2] ] :
        fs \in {12, DefaultFontSize}, ls \in 0..MaxLineSpace,
        aa \in 0..MaxAntialiasing, sc \in BOOLEAN,
        lf \in {"None", "print"}, g \in Grids }

\* the arguments the render calls are explored under
RenderArgs ==
    { a \in Args : /\ a.fontSize = DefaultFontSize
                   /\ a.lineSpace = 0
                   /\ a.logFunction = "None"
                   /\ a.antialiasing \in {1, MaxAntialiasing}
                   /\ a.columns # 132 }

NoArgs == [ columns |-> 0 ]
NoSelf == [ antialiasing |-> 0 ]
NoImage == ImageNew("none", <<0, 0>>, <<>>)
NoResult == [ exception |-> "not called", image |-> NoImage ]
NoScreen == [ buffer |-> <<>>, cursor |-> [x |-> 0, y |-> 0, hidden |-> TRUE] ]

Init ==
    /\ pc = "new"
    /\ args = NoArgs
    /\ self = NoSelf
    /\ memo = <<>>
    /\ screen = NoScreen
    /\ result = NoResult
    /\ previous = NoResult
    /\ cells = <<>>

\* tty2img(screen, ...): the constructor, with its arguments drawn from A
tty2img_init(A) ==
    /\ pc = "new"
    /\ \E a \in A :
        /\ args' = a
        /\ self' = NewSelf(a)
    /\ pc' = "idle"
    /\ UNCHANGED <<memo, screen, result, previous, cells>>

---------------------------------------------------------------------------
(* The screens handed to render: pyte.Screen, its buffer and its cursor *)

\* pyte.screens.Char
Char(data, fg, bg, bold, italics, underscore, strikethrough, reverse) ==
    [ data |-> data, fg |-> fg, bg |-> bg, bold |-> bold, italics |-> italics,
      underscore |-> underscore, strikethrough |-> strikethrough, reverse |-> reverse ]

Default == Named("default")

\* a blank cell, a styled and reversed cell, the empty placeholder, and a
\* character none of the fonts has a glyph for
BlankCell == Char(" ", Default, Default, FALSE, FALSE, FALSE, FALSE, FALSE)
StyledCell == Char("A", HashHex("ff0000"), Hex("0000ff"), TRUE, FALSE, TRUE, TRUE, TRUE)
PlaceholderCell == Char("", Default, Default, FALSE, FALSE, FALSE, FALSE, FALSE)
NoGlyphCell == Char("U+2603", Default, Default, TRUE, TRUE, FALSE, FALSE, FALSE)

CellKinds == { BlankCell, StyledCell, PlaceholderCell, NoGlyphCell }

Cols == 0..MaxCol

\* a rendered screen has two lines, and its buffer holds at most two cells
Lines == {0, 1}
CellCounts == {0, 1, 2}

\* screen.buffer[line].keys(), in the order the dict stores them
KeysOf(row) == [ i \in 1..Len(row) |-> row[i][1] ]
KeySet(row) == { row[i][1] : i \in 1..Len(row) }

\* screen.buffer[line][char]
CellAt(row, char) == row[CHOOSE i \in 1..Len(row) : row[i][1] = char][2]

\* a row is the sequence of its (column, Char) entries in storage order
RECURSIVE RowsOfLen(_)
RowsOfLen(n) ==
    IF n = 0 THEN { <<>> }
    ELSE UNION { { Append(r, <<c, k>>) : c \in Cols \ KeySet(r), k \in CellKinds } :
                 r \in RowsOfLen(n - 1) }

\* a buffer is the sequence of its (line, row) entries; lines that were
\* never written are absent from it
RECURSIVE BuffersFrom(_, _)
BuffersFrom(l, budget) ==
    IF l \notin Lines THEN { <<>> }
    ELSE BuffersFrom(l + 1, budget)
         \cup UNION { UNION { { << <<l, r>> >> \o b : b \in BuffersFrom(l + 1, budget - n) } :
                              r \in RowsOfLen(n) } :
                      n \in { k \in CellCounts : k <= budget } }

Cursors ==
    { [x |-> x, y |-> y, hidden |-> FALSE] : x \in Cols, y \in Lines }
    \cup { [x |-> 0, y |-> 0, hidden |-> TRUE] }

Screens ==
    { [buffer |-> b, cursor |-> c] :
      b \in BuffersFrom(0, Cardinality(CellCounts) - 1), c \in Cursors }

---------------------------------------------------------------------------
(* memofont *)

\* @functools.lru_cache() def memofont(self, font0, font1, char): a cached
\* call returns the cached value.  A character the font has no glyph for
\* reaches "for fname in fallbackFonts", a name that is bound neither in
\* memofont nor in the module: NameError, and nothing is cached.
memofont(cache, font, char) ==
    LET key == <<font, char>>
    IN  IF key \in DOMAIN cache
        THEN [ exception |-> "None", value |-> cache[key], cache |-> cache ]
        ELSE IF get_char_index(font[2], char) # 0
        THEN [ exception |-> "None", value |-> <<0, font>>,
               cache |-> cache @@ (key :> <<0, font>>) ]
        ELSE [ exception |-> "NameError", value |-> <<0, font>>, cache |-> cache ]

---------------------------------------------------------------------------
(* render *)

\* self.showCursor = self.showCursor and (not screen.cursor.hidden)
EffectiveShowCursorXor(showCursor, hidden) == showCursor # hidden
EffectiveShowCursor(showCursor, hidden) == showCursor /\ ~hidden

\* sorted(screen.buffer[line].keys())
RECURSIVE SortSet(_)
SortSet(S) ==
    IF S = {} THEN <<>>
    ELSE LET m == CHOOSE x \in S : \A z \in S : x <= z
         IN  <<m>> \o SortSet(S \ {m})
sorted(keys) == SortSet({ keys[i] : i \in 1..Len(keys) })

\* point[0] += self.charWidth * (char - lchar - 1)
GapAdvanceNone(charWidth, char, lchar) == 0
GapAdvance(charWidth, char, lchar) == charWidth * (char - lchar - 1)

\* the draw calls: draw.rectangle, draw.line, draw.text
NoFont == truetype("", 0)
Rectangle(x0, y0, x1, y1, fill) ==
    [ op |-> "rectangle", xy |-> <<x0, y0, x1, y1>>, fill |-> fill, text |-> "", font |-> NoFont ]
DrawLine(x0, y0, x1, y1, fill) ==
    [ op |-> "line", xy |-> <<x0, y0, x1, y1>>, fill |-> fill, text |-> "", font |-> NoFont ]
DrawText(x, y, text, fill, font) ==
    [ op |-> "text", xy |-> <<x, y>>, fill |-> fill, text |-> text, font |-> font ]

\* bgColor, fgColor = fgColor, bgColor
SwapIf(c, cond) == IF cond THEN [ bg |-> c.fg, fg |-> c.bg ] ELSE c

\* bgColor, fgColor of a cell before _convertColor: the defaults for
\* 'default', then the reverse swap, then the cursor swap
CellColors(obj, cData, atCursor) ==
    SwapIf(SwapIf([ bg |-> IF cData.bg # Default THEN cData.bg ELSE obj.bgDefaultColor,
                    fg |-> IF cData.fg # Default THEN cData.fg ELSE obj.fgDefaultColor ],
                  cData.reverse),
           atCursor)

\* set font (bold / italics)
SelectFont(obj, cData) ==
    IF cData.bold /\ cData.italics THEN obj.boldItalicsFont
    ELSE IF cData.bold THEN obj.boldFont
    ELSE IF cData.italics THEN obj.italicsFont
    ELSE obj.normalFont

\* if bgColor != self.bgDefaultColor: draw.rectangle(...)
BackgroundOps(obj, ops, x, y, bgColor) ==
    IF bgColor # obj.bgDefaultColor
    THEN Append(ops, Rectangle(x, y, x + obj.charWidth, y + obj.charHeight, bgColor))
    ELSE ops

\* draw underscore and strikethrough
UnderscoreOps(obj, cData, ops, x, y, fgColor) ==
    IF cData.underscore
    THEN Append(ops, DrawLine(x, y + obj.charHeight - 1,
                              x + obj.charWidth, y + obj.charHeight - 1, fgColor))
    ELSE ops
StrikethroughOps(obj, cData, ops, x, y, fgColor) ==
    IF cData.strikethrough
    THEN Append(ops, DrawLine(x, y + (obj.charHeight \div 2),
                              x + obj.charWidth, y + (obj.charHeight \div 2), fgColor))
    ELSE ops

\* The loop "for char in sorted(screen.buffer[line].keys())" works on st:
\* point[0] (x), lchar, char, the draw calls made so far (ops), the cache,
\* the exception raised if any, and cells: for each cell whose glyph was
\* drawn, where and in which colours.

\* from the return of memofont (m) to "point[0] += self.charWidth + extraWidth"
DrawGlyph(obj, line, y, char, cData, st, x, fgColor, bgColor, m) ==
    IF m.exception # "None" THEN [ st EXCEPT !.exception = m.exception ]
    ELSE [ st EXCEPT
             !.x = x + obj.charWidth + m.value[1],
             !.ops = Append(StrikethroughOps(obj, cData,
                                UnderscoreOps(obj, cData, st.ops, x, y, fgColor),
                                x, y, fgColor),
                            DrawText(x, y, cData.data, fgColor, m.value[2][1])),
             !.cache = m.cache,
             !.cells = Append(st.cells,
                              [ line |-> line, col |-> char, x |-> x, y |-> y,
                                fg |-> fgColor, bg |-> bgColor,
                                rect |-> bgColor # obj.bgDefaultColor ]) ]

\* the background rectangle, the font of the cell and the call of memofont
PaintCell(obj, line, y, char, cData, st, x, fgColor, bgColor) ==
    DrawGlyph(obj, line, y, char, cData,
              [ st EXCEPT !.ops = BackgroundOps(obj, st.ops, x, y, bgColor) ],
              x, fgColor, bgColor,
              memofont(st.cache, SelectFont(obj, cData), cData.data))

\* bgColor = _convertColor(bgColor); fgColor = _convertColor(fgColor)
ColorCell(obj, line, y, char, cData, st, x, c) ==
    PaintCell(obj, line, y, char, cData, st, x, convertColor(c.fg), convertColor(c.bg))

\* lchar = char; an empty char is skipped ("continue") with point[0] left
\* where the gap put it
DrawCellAt(obj, showCursor, cursor, line, y, char, cData, st, x) ==
    IF cData.data = ""
    THEN [ st EXCEPT !.x = x, !.lchar = char, !.char = char ]
    ELSE ColorCell(obj, line, y, char, cData,
                   [ st EXCEPT !.x = x, !.lchar = char, !.char = char ], x,
                   CellColors(obj, cData,
                              showCursor /\ line = cursor.y /\ char = cursor.x))

\* one pass of the loop over the columns
DrawCell(obj, showCursor, cursor, line, y, char, cData, st) ==
    DrawCellAt(obj, showCursor, cursor, line, y, char, cData, st,
               st.x + GapAdvance(obj.charWidth, char, st.lchar))

RECURSIVE DrawCells(_, _, _, _, _, _, _, _)
DrawCells(obj, showCursor, cursor, line, y, row, keys, st) ==
    IF keys = <<>> \/ st.exception # "None" THEN st
    ELSE DrawCells(obj, showCursor, cursor, line, y, row, Tail(keys),
                   DrawCell(obj, showCursor, cursor, line, y, Head(keys),
                            CellAt(row, Head(keys)), st))

\* draw cursor when it is out of text range
CursorBlock(obj, y, cursor, st, x) ==
    [ st EXCEPT !.x = x,
                !.ops = Append(st.ops, Rectangle(x, y, x + obj.charWidth, y + obj.charHeight,
                                                 obj.fgDefaultColor)) ]
DrawCursor(obj, showCursor, cursor, line, y, row, st) ==
    IF st.exception = "None" /\ showCursor /\ line = cursor.y /\ cursor.x \notin KeySet(row)
    THEN CursorBlock(obj, y, cursor, st, st.x + (cursor.x - st.char - 1) * obj.charWidth)
    ELSE st

\* one pass of the loop "for line in screen.buffer"
DrawRowAt(obj, showCursor, cursor, line, y, row, st) ==
    DrawCursor(obj, showCursor, cursor, line, y, row,
               DrawCells(obj, showCursor, cursor, line, y, row, sorted(KeysOf(row)),
                         [ st EXCEPT !.x = obj.marginSize, !.lchar = -1, !.char = -1 ]))
DrawRow(obj, showCursor, cursor, line, row, st) ==
    DrawRowAt(obj, showCursor, cursor, line, line * obj.charHeight + obj.marginSize, row, st)

RECURSIVE DrawRows(_, _, _, _, _)
DrawRows(obj, showCursor, cursor, buffer, st) ==
    IF buffer = <<>> \/ st.exception # "None" THEN st
    ELSE DrawRows(obj, showCursor, cursor, Tail(buffer),
                  DrawRow(obj, showCursor, cursor, Head(buffer)[1], Head(buffer)[2], st))

\* image.resize(size, Image.ANTIALIAS)
resize(image, size) == [ image EXCEPT !.size = size, !.filter = "ANTIALIAS" ]

\* the size of the image render returns
ReturnedSizeUnscaled(w, h, antialiasing) == <<w, h>>
ReturnedSize(w, h, antialiasing) ==
    IF antialiasing > 1 THEN <<w \div antialiasing, h \div antialiasing>> ELSE <<w, h>>

\* "return image": the image as drawn, resized when antialiasing > 1;
\* nothing is returned when the loop raised
Returned(obj, image, st) ==
    IF st.exception # "None" THEN [ exception |-> st.exception, image |-> NoImage ]
    ELSE [ exception |-> "None",
           image |-> IF obj.antialiasing > 1
                     THEN resize([ image EXCEPT !.ops = st.ops ],
                                 ReturnedSize(obj.imgWidth, obj.imgHeight, obj.antialiasing))
                     ELSE [ image EXCEPT !.ops = st.ops ] ]

\* image = self.base_image.copy(): the draw calls go to the copy
ImageCopy(image) == image

Outcome(obj, showCursor, image, st) ==
    [ showCursor |-> showCursor, cache |-> st.cache, cells |-> st.cells,
      result |-> Returned(obj, image, st) ]

RenderWith(obj, cache, scr, showCursor, image) ==
    Outcome(obj, showCursor, image,
            DrawRows(obj, showCursor, scr.cursor, scr.buffer,
                     [ x |-> 0, lchar |-> -1, char |-> -1, ops |-> image.ops,
                       cache |-> cache, cells |-> <<>>, exception |-> "None" ]))

\* render(self, screen): what it assigns to self.showCursor, what the cache
\* holds afterwards, and what it returns or raises
RenderCall(obj, cache, scr) ==
    RenderWith(obj, cache, scr,
               EffectiveShowCursor(obj.showCursor, scr.cursor.hidden),
               ImageCopy(obj.base_image))

---------------------------------------------------------------------------
(* Actions *)

\* the constructor, as the render calls are explored
constructForRender == tty2img_init(RenderArgs)

\* the caller's terminal stream brings the screen to its next state
feed ==
    /\ pc = "idle"
    /\ \E s \in Screens : screen' = s
    /\ pc' = "ready"
    /\ UNCHANGED <<args, self, memo, result, previous, cells>>

\* what a render call leaves in the state
Assign(r) ==
    /\ self' = [ self EXCEPT !.showCursor = r.showCursor ]
    /\ memo' = r.cache
    /\ result' = r.result
    /\ cells' = r.cells

\* render(screen) on the screen the caller holds; a second call in a row
\* keeps the outcome of the first in previous
render ==
    /\ pc \in {"ready", "done"}
    /\ Assign(RenderCall(self, memo, screen))
    /\ previous' = IF pc = "done" THEN result ELSE NoResult
    /\ pc' = "done"
    /\ UNCHANGED <<args, screen>>

\* the caller drops the image and the screen moves on
discard ==
    /\ pc = "done"
    /\ pc' = "idle"
    /\ screen' = NoScreen
    /\ result' = NoResult
    /\ previous' = NoResult
    /\ cells' = <<>>
    /\ UNCHANGED <<args, self, memo>>

Next == constructForRender \/ feed \/ render \/ discard

Spec == Init /\ [][Next]_vars

\* the constructor alone, over all its arguments
construct == tty2img_init(Args)

SpecInit == Init /\ [][construct]_vars

---------------------------------------------------------------------------
(* Properties *)

Constructed == pc # "new"
RenderReturned == pc = "done" /\ result.exception = "None"

\* the scanned point sizes whose projection exceeds the cap
OverflowSizes(a) ==
    { s \in ScanFirst..(ScanStop - 1) :
        \/ getsizeX(truetype(fontName, s)) * a.columns + 2 * a.marginSize > 1920
        \/ (getmetricsSum(truetype(fontName, s)) + a.lineSpace) * a.lines
             + 2 * a.marginSize > 1080 }
Smallest(S) == CHOOSE s \in S : \A t \in S : s <= t

\* the point sizes the four variants are loaded at
LoadedSizes(obj) ==
    { obj.normalFont[1].size, obj.boldFont[1].size,
      obj.italicsFont[1].size, obj.boldItalicsFont[1].size }

\* the cells of a screen, as <<line, column, Char>>
RowCells(line, row) == { <<line, row[j][1], row[j][2]>> : j \in DOMAIN row }
CellsOf(scr) == UNION { RowCells(scr.buffer[i][1], scr.buffer[i][2]) : i \in DOMAIN scr.buffer }

\* the colours the claims give a cell: the defaults for 'default', one swap
\* for reverse, one more for the cursor
ClaimedColors(cData, atCursor) ==
    LET bg == IF cData.bg = Default THEN args.bgDefaultColor ELSE cData.bg
        fg == IF cData.fg = Default THEN args.fgDefaultColor ELSE cData.fg
        swapped == (cData.reverse /\ ~atCursor) \/ (~cData.reverse /\ atCursor)
    IN  [ bg |-> convertColor(IF swapped THEN fg ELSE bg),
          fg |-> convertColor(IF swapped THEN bg ELSE fg) ]

\* effectiveShowCursor as the claims define it, for the screen rendered
ClaimedShowCursor == args.showCursor /\ ~screen.cursor.hidden

AtCursor(line, col) == line = screen.cursor.y /\ col = screen.cursor.x

\* C1: every render call decides the cursor marking from showCursor as
\* given to the constructor and the hidden flag of the screen of that call:
\* what a call returns is what a call on a freshly constructed object
\* returns, whatever was rendered before.
C1_CursorDecidedPerCall ==
    pc = "done" =>
        result = RenderCall([ self EXCEPT !.showCursor = args.showCursor ], memo, screen).result

\* C2: the image render returns is 1920 x 1080 when antialiasing <= 1 and
\* (1920 div F) x (1080 div F) when antialiasing = F > 1, whatever the grid,
\* the character size and the margin.
C2_FixedImageSize ==
    RenderReturned =>
        result.image.size =
            IF args.antialiasing > 1
            THEN <<1920 \div args.antialiasing, 1080 \div args.antialiasing>>
            ELSE <<1920, 1080>>

C2_Witness ==
    /\ RenderReturned
    /\ args.antialiasing > 1
    /\ args.columns = 40
    /\ screen.buffer # <<>>
    /\ result.image.size = <<960, 540>>

\* C3: a second render of the same screen in a row has the outcome of the
\* first, and the template image is as the constructor made it.
C3_SameScreenSameImage ==
    (pc = "done" /\ previous # NoResult) =>
        /\ result = previous
        /\ self.base_image = ImageNew("RGBA", <<1920, 1080>>, args.bgDefaultColor)

C3_Witness ==
    /\ RenderReturned
    /\ previous # NoResult
    /\ args.showCursor
    /\ screen.cursor.hidden
    /\ Len(result.image.ops) > 1
    /\ DOMAIN memo # {}

\* C4: a character without a glyph never aborts render: a screen that
\* holds such a cell is rendered to an image.
C4_MissingGlyphDoesNotAbort ==
    (pc = "done" /\ \E c \in CellsOf(screen) :
                        c[3].data # "" /\ get_char_index(Face(fontName), c[3].data) = 0)
        => result.exception = "None"

\* C5: no object is constructed when no scanned size exceeds the cap.
C5_NoObjectWithoutOverflow ==
    Constructed => OverflowSizes(args) # {}

\* C6: with antialiasing F > 1 the margin, the point size of the four
\* variants and the line spacing within charHeight are F times those of the
\* same construction with antialiasing 1.
C6_GeometryScaled ==
    (Constructed /\ args.antialiasing > 1) =>
        LET one == NewSelf([ args EXCEPT !.antialiasing = 1 ])
            F == args.antialiasing
        IN  /\ self.marginSize = F * one.marginSize
            /\ LoadedSizes(self) = { F * one.normalFont[1].size }
            /\ self.charHeight - getmetricsSum(self.normalFont[1])
                 = F * (one.charHeight - getmetricsSum(one.normalFont[1]))

\* C7: with showCursor given and the cursor not hidden, every render marks
\* the cursor position: the cell there is painted with fg and bg swapped,
\* or, with no cell there, a block in the default foreground is painted at
\* the cursor's column and line.
C7_CursorAlwaysMarked ==
    (RenderReturned /\ ClaimedShowCursor) =>
        LET cx == screen.cursor.x
            cy == screen.cursor.y
            x == self.marginSize + cx * self.charWidth
            y == self.marginSize + cy * self.charHeight
        IN  IF \E c \in CellsOf(screen) : c[1] = cy /\ c[2] = cx
            THEN \E c \in CellsOf(screen), k \in DOMAIN cells :
                    /\ c[1] = cy /\ c[2] = cx
                    /\ cells[k].line = cy /\ cells[k].col = cx
                    /\ cells[k].fg = ClaimedColors(c[3], TRUE).fg
                    /\ cells[k].bg = ClaimedColors(c[3], TRUE).bg
            ELSE \E k \in DOMAIN result.image.ops :
                    result.image.ops[k] =
                        Rectangle(x, y, x + self.charWidth, y + self.charHeight,
                                  args.fgDefaultColor)

\* C8: every populated cell other than the empty placeholder is painted in
\* the colours the defaults, the reverse flag and the cursor give it, in
\* that order, and its background rectangle is painted exactly when that
\* background differs from the default background.
C8_PaintedColors ==
    RenderReturned =>
        \A c \in CellsOf(screen) :
            c[3].data # "" =>
                \E k \in DOMAIN cells :
                    /\ cells[k].line = c[1] /\ cells[k].col = c[2]
                    /\ cells[k].fg = ClaimedColors(c[3], ClaimedShowCursor /\ AtCursor(c[1], c[2])).fg
                    /\ cells[k].bg = ClaimedColors(c[3], ClaimedShowCursor /\ AtCursor(c[1], c[2])).bg
                    /\ cells[k].rect = (cells[k].bg # args.bgDefaultColor)

\* C9: in a row without empty placeholder whose glyphs all resolve, the
\* cells are drawn in ascending column order, each populated column c at
\* x = margin + c * charWidth, whatever the other columns hold and in
\* whatever order the row stores them.
PlainRow(row) ==
    \A j \in DOMAIN row :
        row[j][2].data # "" /\ get_char_index(Face(fontName), row[j][2].data) # 0
C9_GapSkippingPositions ==
    pc = "done" =>
        \A i \in DOMAIN screen.buffer :
            PlainRow(screen.buffer[i][2]) =>
                LET line == screen.buffer[i][1]
                    drawn == { k \in DOMAIN cells : cells[k].line = line }
                IN  /\ \A k \in drawn :
                           cells[k].x = self.marginSize + cells[k].col * self.charWidth
                    /\ \A k, l \in drawn : k < l => cells[k].col < cells[l].col
                    /\ RenderReturned =>
                           \A c \in KeySet(screen.buffer[i][2]) :
                               \E k \in drawn, o \in DOMAIN result.image.ops :
                                   /\ cells[k].col = c
                                   /\ result.image.ops[o].op = "text"
                                   /\ result.image.ops[o].xy = <<cells[k].x, cells[k].y>>

C9_Witness ==
    /\ RenderReturned
    /\ args.antialiasing > 1
    /\ \E i \in DOMAIN screen.buffer :
          /\ KeysOf(screen.buffer[i][2]) = <<2, 0>>
          /\ PlainRow(screen.buffer[i][2])
          /\ \E k \in DOMAIN cells :
                /\ cells[k].line = screen.buffer[i][1]
                /\ cells[k].col = 2
                /\ cells[k].x = self.marginSize + 2 * self.charWidth

====
